---- MODULE Spec2Model ----
(***************************************************************************)
(* naukriBandhu: the job-application / booking workflow of lib/firestore.ts *)
(* (applyForJob and the posting lifecycle operations) over the Firestore   *)
(* collections "jobs", "job_applications" and "bookings".                  *)
(*                                                                         *)
(* Every await of the source is a point at which other requests may run,   *)
(* so each asynchronous function is modelled as one action per await.      *)
(* Instants are milliseconds since 00:00 UTC of a Monday (day 0, Monday    *)
(* 15 December 2025); a date string "YYYY-MM-DD" is modelled by its day    *)
(* number, so day 14 is "2025-12-29" and day 17 is "2026-01-01".           *)
(***************************************************************************)
EXTENDS Integers, Sequences, FiniteSets, TLC

----------------------------------------------------------------------------
(* Bounds of the model *)

\* dashboard sessions, each making one applyForJob call (numbered 1..MaxCalls)
MaxCalls == 2
\* Monday-to-Sunday weeks 0..MaxWeek are examined by the weekly-cap properties
MaxWeek == 2

----------------------------------------------------------------------------
(* Program constants *)

MsPerMinute == 60000
MsPerDay == 24 * 60 * MsPerMinute
\* the limit of applyForJob's weekly hours check
WeeklyHourLimit == 50
\* createJobPosting: expiration 7 days after creation
ExpirationDays == 7
\* getWeekBounds: endOfWeek is startOfWeek + 6 days
WeekEndOffsetDays == 6
\* the calendar of Date: day 0 is the 15th of a December, a month of 31 days
FirstDayOfMonth == 15
DaysInDecember == 31
\* getSystemRates: the fallback minWagePerHour
FallbackMinWage == 60

----------------------------------------------------------------------------
(* Inputs *)

Labors == {"l1", "l2"}
JobIds == {"j1", "j2"}
Calls == 1..MaxCalls

\* requiredDate of a posting: Monday and Sunday of week 1 ("2025-12-22",
\* "2025-12-28")
JobDates == {7, 13}
\* the date strings getWeekBounds is applied to: "2025-12-22" to "2026-01-04"
WeekDates == 7..20
Durations == {20, 30}
Capacities == {1, 2}
\* posting j1 is a 30-hour job on the Monday; posting j2 takes 2 workers
FirstDate == CHOOSE d \in JobDates : \A e \in JobDates : d <= e
LongShift == CHOOSE h \in Durations : \A g \in Durations : h >= g
MaxCapacity == CHOOSE n \in Capacities : \A m \in Capacities : n >= m
\* UTC offsets of the browser's local time zone (UTC-5:00, UTC+5:30), in minutes
TimeZoneOffsets == {-300, 330}
\* the instants at which the clock is read: the creation of the postings,
\* their expiresAt, and one millisecond later
ClockReadings == {0, ExpirationDays * MsPerDay, ExpirationDays * MsPerDay + 1}

NoJob == [id |-> "none"]

\* a document that does not exist (snap.exists() is false)
NoDoc == [exists |-> FALSE]
\* the system_config/rates document: absent, or a stored rate
RateDocs == {NoDoc, [minWagePerHour |-> 75]}
\* the fields of the post-job form
WageTypes == {"hourly", "daily"}
WageInputs ==
    {[typeof |-> "string"]} \cup { [typeof |-> "number", value |-> n] : n \in {59, 60, 479, 480, 600} }
FormDurations == {1, 8}

VARIABLES
    jobs,           \* collection "jobs": posting id -> stored document
    applications,   \* collection "job_applications": a set of documents
    bookings,       \* collection "bookings": a set of documents
    now,            \* the current instant (new Date())
    tzOffset,       \* local time zone of the browsers, minutes east of UTC
    sweepWrites,    \* setDoc writes issued by updateExpiredJobs, not yet applied
    call            \* the LaborDashboard sessions: each loads the feed
                    \* (getOpenJobs) and then applies for one of its postings;
                    \* call[c].job is the posting object of the feed that
                    \* session c passes to applyForJob

vars == <<jobs, applications, bookings, now, tzOffset, sweepWrites, call>>
store == <<jobs, applications, bookings>>

----------------------------------------------------------------------------
(* Dates: new Date(string), getDay, setDate, setHours *)

\* new Date("YYYY-MM-DD"): a date-only string is midnight UTC of that day
ParseDate(d) == d * MsPerDay

\* the local calendar day an instant falls on
LocalDay(t) == (t + tzOffset * MsPerMinute) \div MsPerDay

\* Date.prototype.getDay: 0 (Sun) to 6 (Sat), in local time; day 0 is a Monday
GetDay(t) == (LocalDay(t) + 1) % 7

\* local midnight of a local calendar day, as an instant
LocalMidnight(day) == day * MsPerDay - tzOffset * MsPerMinute

\* the day number of the 1st of the month a local day lies in (December 2025
\* or January 2026)
MonthStart(day) ==
    LET december == 1 - FirstDayOfMonth
        january == december + DaysInDecember
    IN  IF day >= january THEN january ELSE december

\* Date.prototype.getDate: the day of the month, in local time
GetDate(t) == LocalDay(t) - MonthStart(LocalDay(t)) + 1

\* Date.prototype.setDate: the day of the month is set, counted from the 1st
\* of the date's month (0 and below fall in the previous month, values past
\* the month's end in the next); the local time of day is kept
SetDate(t, dayOfMonth) ==
    t + (MonthStart(LocalDay(t)) + dayOfMonth - 1 - LocalDay(t)) * MsPerDay

\* Date.prototype.setHours(h, m, s, ms) with the time of day in milliseconds
SetHours(t, msOfDay) == LocalMidnight(LocalDay(t)) + msOfDay

getWeekBounds(dateString) ==
    LET date == ParseDate(dateString)
        day == GetDay(date)
        diff == GetDate(date) - day + (IF day = 0 THEN -6 ELSE 1)
        startOfWeek == SetHours(SetDate(date, diff), 0)
        endOfWeek == SetHours(SetDate(startOfWeek, GetDate(startOfWeek) + WeekEndOffsetDays),
                              MsPerDay - 1)
    IN  [start |-> startOfWeek, end |-> endOfWeek]

----------------------------------------------------------------------------
(* Queries *)

\* totalHours += data.durationHours over the documents of a snapshot
RECURSIVE SumHours(_)
SumHours(docs) ==
    IF docs = {} THEN 0
    ELSE LET data == CHOOSE d \in docs : TRUE
         IN  data.durationHours + SumHours(docs \ {data})

getLaborWeeklyHours(laborId, targetDate) ==
    LET w == getWeekBounds(targetDate)
        snapshot == { b \in bookings : b.laborId = laborId /\ b.status = "confirmed" }
    IN  SumHours({ b \in snapshot : /\ ParseDate(b.jobDate) >= w.start
                                    /\ ParseDate(b.jobDate) <= w.end })

\* the duplicate check looking for a Booking instead of an Application
hasAlreadyBooked(jobId, laborId) ==
    \E b \in bookings : b.jobId = jobId /\ b.laborId = laborId

hasAlreadyApplied(jobId, laborId) ==
    \E a \in applications : a.jobId = jobId /\ a.laborId = laborId

----------------------------------------------------------------------------
(* Postings *)

\* the document createJobPosting stores for jobData at creation time `created`:
\* { ...jobData, status, isListed, laborersApplied, expiresAt }
createJobPosting(jobData, created) ==
    [status |-> "open",
     isListed |-> TRUE,
     laborersApplied |-> 0,
     expiresAt |-> IF "expiresAt" \in DOMAIN jobData
                   THEN jobData.expiresAt
                   ELSE created + ExpirationDays * MsPerDay] @@ jobData

\* the jobData a supervisor submits for posting j
JobData(j, date, hours, required) ==
    [supervisorId |-> IF j = "j1" THEN "s1" ELSE "s2",
     title |-> IF j = "j1" THEN "Construction Worker" ELSE "House Painting Work",
     locationName |-> IF j = "j1" THEN "Yelahanka" ELSE "Nagasandra",
     wageAmount |-> IF j = "j1" THEN 800 ELSE 750,
     requiredDate |-> date,
     durationHours |-> hours,
     laborersRequired |-> required]

\* { id: doc.id, ...doc.data() }
WithId(id, data) == [id |-> id] @@ data

\* the documents the query of getOpenJobs returns, after its filter
IsOpenJob(j) ==
    /\ jobs[j].status = "open"
    /\ jobs[j].isListed = TRUE
    /\ jobs[j].expiresAt > now

\* the ids of the postings getOpenJobs returns when its query and filter run
\* in the current state
getOpenJobs == { j \in JobIds : IsOpenJob(j) }

\* the setDoc calls updateExpiredJobs issues for the open postings it read
ExpiredWrites ==
    { [id |-> j, data |-> [jobs[j] EXCEPT !.status = "expired"]] :
        j \in { k \in JobIds : jobs[k].status = "open" /\ now > jobs[k].expiresAt } }

IdleCall == [pc |-> "idle", laborId |-> "none", job |-> NoJob, result |-> "none"]

Init ==
    /\ tzOffset \in TimeZoneOffsets
    /\ now = 0
    /\ \E date \in JobDates, hours \in Durations, required \in Capacities :
          jobs = [j \in JobIds |->
                    IF j = "j1"
                    THEN createJobPosting(JobData(j, FirstDate, LongShift, required), 0)
                    ELSE createJobPosting(JobData(j, date, hours, MaxCapacity), 0)]
    /\ applications = {}
    /\ bookings = {}
    /\ sweepWrites = {}
    /\ call = [c \in Calls |-> IdleCall]

----------------------------------------------------------------------------
(* The clock *)

Tick(t) ==
    /\ t > now
    /\ now' = t
    /\ UNCHANGED <<jobs, applications, bookings, tzOffset, sweepWrites, call>>

----------------------------------------------------------------------------
(* getOpenJobs, called by LaborDashboard's loadDashboard *)

\* await updateExpiredJobs(): reads the open postings and issues the setDoc
\* calls without awaiting them
GetOpenJobsSweep(c, l) ==
    /\ call[c].pc = "idle"
    /\ \A d \in Calls : d < c => call[d].pc # "idle"
    /\ sweepWrites' = sweepWrites \cup ExpiredWrites
    /\ call' = [call EXCEPT ![c].pc = "getOpenJobs", ![c].laborId = l]
    /\ UNCHANGED <<jobs, applications, bookings, now, tzOffset>>

\* the query, the filter and setJobs(jobData); of the postings returned the
\* session keeps the one (if any) its worker goes on to apply for
GetOpenJobsQuery(c, j) ==
    /\ call[c].pc = "getOpenJobs"
    /\ call' = [call EXCEPT
                  ![c].pc = "dashboard",
                  ![c].job = IF IsOpenJob(j) THEN WithId(j, jobs[j]) ELSE NoJob]
    /\ UNCHANGED <<jobs, applications, bookings, now, tzOffset, sweepWrites>>

\* a setDoc of updateExpiredJobs reaches the store: the whole document is
\* replaced by the one the sweep read, with status expired
ApplySweepWrite(w) ==
    /\ w \in sweepWrites
    /\ jobs' = [jobs EXCEPT ![w.id] = w.data]
    /\ sweepWrites' = sweepWrites \ {w}
    /\ UNCHANGED <<applications, bookings, now, tzOffset, call>>

----------------------------------------------------------------------------
(* Owner lifecycle controls *)

\* a toggle that also reopens the posting when it lists it again
toggleJobListingReopening(jobId, isListed) ==
    /\ jobs' = [jobs EXCEPT ![jobId].isListed = isListed,
                            ![jobId].status = IF isListed THEN "open" ELSE @]
    /\ UNCHANGED <<applications, bookings, now, tzOffset, sweepWrites, call>>

toggleJobListing(jobId, isListed) ==
    /\ jobs' = [jobs EXCEPT ![jobId].isListed = isListed]
    /\ UNCHANGED <<applications, bookings, now, tzOffset, sweepWrites, call>>

\* a delisting that also cancels the Bookings of the posting
deleteJobPostingCancelling(jobId) ==
    /\ jobs' = [jobs EXCEPT ![jobId].status = "delisted"]
    /\ bookings' = { IF b.jobId = jobId THEN [b EXCEPT !.status = "cancelled"] ELSE b :
                        b \in bookings }
    /\ UNCHANGED <<applications, now, tzOffset, sweepWrites, call>>

deleteJobPosting(jobId) ==
    /\ jobs' = [jobs EXCEPT ![jobId].status = "delisted"]
    /\ UNCHANGED <<applications, bookings, now, tzOffset, sweepWrites, call>>

----------------------------------------------------------------------------
(* applyForJob(job, laborId), reached from handleApply through bookJob.     *)
(* call[c].pc names the await whose result call c is waiting for.          *)

Return(c, result) ==
    call' = [call EXCEPT ![c].pc = "done", ![c].result = result]

\* handleApply(job) with the posting of the feed: bookJob(job, user.uid), whose
\* first await is
\* 1. Check if already applied
BeginApply(c) ==
    /\ call[c].pc = "dashboard"
    /\ call[c].job # NoJob
    /\ IF hasAlreadyApplied(call[c].job.id, call[c].laborId)
       THEN Return(c, "already_applied")
       ELSE call' = [call EXCEPT ![c].pc = "getLaborWeeklyHours"]
    /\ UNCHANGED <<jobs, applications, bookings, now, tzOffset, sweepWrites>>

\* 2. the weekly hours limit; 3. the capacity check on the job object passed
\* the limit check applied to currentHours instead of newTotal
ExceedsLimitIgnoringJob(currentHours, durationHours) ==
    currentHours > WeeklyHourLimit

\* the limit check refusing a projected total equal to the limit
ExceedsLimitAtLimit(currentHours, durationHours) ==
    currentHours + durationHours >= WeeklyHourLimit

ExceedsLimit(currentHours, durationHours) ==
    LET newTotal == currentHours + durationHours
    IN  newTotal > WeeklyHourLimit

IsFull(job) == job.laborersApplied >= job.laborersRequired

CheckLimits(c) ==
    /\ call[c].pc = "getLaborWeeklyHours"
    /\ LET job == call[c].job
           currentHours == getLaborWeeklyHours(call[c].laborId, job.requiredDate)
       IN  IF ExceedsLimit(currentHours, job.durationHours) THEN Return(c, "safety_limit")
           ELSE IF IsFull(job) THEN Return(c, "capacity_exceeded")
           ELSE call' = [call EXCEPT ![c].pc = "addApplication"]
    /\ UNCHANGED <<jobs, applications, bookings, now, tzOffset, sweepWrites>>

\* 4. Create application with automatic approval
\* addDoc gives every document a fresh id: here the number of the call
ApplicationData(id, job, laborId) ==
    [id |-> id, jobId |-> job.id, laborId |-> laborId,
     supervisorId |-> job.supervisorId, status |-> "confirmed"]

AddApplication(c) ==
    /\ call[c].pc = "addApplication"
    /\ applications' = applications \cup {ApplicationData(c, call[c].job, call[c].laborId)}
    /\ call' = [call EXCEPT ![c].pc = "addBooking"]
    /\ UNCHANGED <<jobs, bookings, now, tzOffset, sweepWrites>>

\* 5. Create booking immediately since it's auto-approved
BookingData(id, job, laborId) ==
    [id |-> id, jobId |-> job.id, laborId |-> laborId, supervisorId |-> job.supervisorId,
     jobTitle |-> job.title, locationName |-> job.locationName,
     jobDate |-> job.requiredDate, durationHours |-> job.durationHours,
     wageAmount |-> job.wageAmount, status |-> "confirmed"]

AddBooking(c) ==
    /\ call[c].pc = "addBooking"
    /\ bookings' = bookings \cup {BookingData(c, call[c].job, call[c].laborId)}
    /\ call' = [call EXCEPT ![c].pc = "updateJob"]
    /\ UNCHANGED <<jobs, applications, now, tzOffset, sweepWrites>>

\* 6. Update job's applied count and check if job is full: increment(1) acts on
\* the stored counter, the condition on the job object passed by the caller
\* the update writing the counter computed from the job object passed, in
\* place of increment(1)
JobUpdateFromSnapshot(job, stored) ==
    LET updatedAppliedCount == job.laborersApplied + 1
        written == [stored EXCEPT !.laborersApplied = updatedAppliedCount]
    IN  IF updatedAppliedCount >= job.laborersRequired
        THEN [written EXCEPT !.status = "filled", !.isListed = FALSE]
        ELSE written

JobUpdate(job, stored) ==
    LET updatedAppliedCount == job.laborersApplied + 1
        incremented == [stored EXCEPT !.laborersApplied = @ + 1]
    IN  IF updatedAppliedCount >= job.laborersRequired
        THEN [incremented EXCEPT !.status = "filled", !.isListed = FALSE]
        ELSE incremented

UpdateJob(c) ==
    /\ call[c].pc = "updateJob"
    /\ jobs' = [jobs EXCEPT ![call[c].job.id] = JobUpdate(call[c].job, @)]
    /\ Return(c, "success")
    /\ UNCHANGED <<applications, bookings, now, tzOffset, sweepWrites>>

\* one of the three writes throws: catch (error) returns the system error
FailWrite(c) ==
    /\ call[c].pc \in {"addApplication", "addBooking", "updateJob"}
    /\ Return(c, "system_error")
    /\ UNCHANGED <<jobs, applications, bookings, now, tzOffset, sweepWrites>>

----------------------------------------------------------------------------
(* Specifications *)

CallStep(c) ==
    \/ CheckLimits(c)
    \/ AddApplication(c)
    \/ AddBooking(c)
    \/ UpdateJob(c)

\* a dashboard session starts a request: the page load, the click on a posting
Start ==
    \/ \E c \in Calls, l \in Labors : GetOpenJobsSweep(c, l)
    \/ \E c \in Calls : BeginApply(c)

\* a request continues after an await
Continue ==
    \/ \E c \in Calls, j \in JobIds : GetOpenJobsQuery(c, j)
    \/ \E c \in Calls : CallStep(c)

\* the clock, the owner controls and the writes of the expiration sweep
Lifecycle ==
    \/ \E t \in ClockReadings : Tick(t)
    \/ \E w \in sweepWrites : ApplySweepWrite(w)
    \/ \E j \in JobIds, b \in BOOLEAN : toggleJobListing(j, b)
    \/ \E j \in JobIds : deleteJobPosting(j)

\* the sessions of independent callers, interleaved at every await, any write
\* of applyForJob may fail
ApplyNext ==
    \/ Start
    \/ Continue
    \/ \E c \in Calls : FailWrite(c)

ApplySpec == Init /\ [][ApplyNext]_vars

\* the sessions together with the lifecycle of the postings
Next ==
    \/ ApplyNext
    \/ Lifecycle

Spec == Init /\ [][Next]_vars

\* no request is suspended at an await
Quiescent == \A c \in Calls : call[c].pc \in {"idle", "dashboard", "done"}

\* every request runs to completion before the next starts, and no write fails
SeqNext ==
    \/ Quiescent /\ Start
    \/ Continue

SeqSpec == Init /\ [][SeqNext]_vars

\* every request runs to completion before the next starts, any write of
\* applyForJob may fail: a caller retries after the failure has been returned
RetryNext ==
    \/ Quiescent /\ Start
    \/ Continue
    \/ \E c \in Calls : FailWrite(c)

RetrySpec == Init /\ [][RetryNext]_vars

----------------------------------------------------------------------------
(* getWeekBounds applied to the dates of WeekDates in either time zone *)

\* a request computes getWeekBounds(dateString) and keeps the window
ReadWeekBounds(c, dateString) ==
    /\ call[c].pc = "idle"
    /\ call' = [call EXCEPT ![c].pc = "done",
                            ![c].result = [date |-> dateString] @@ getWeekBounds(dateString)]
    /\ UNCHANGED <<jobs, applications, bookings, now, tzOffset, sweepWrites>>

WeekNext == \E c \in Calls, dateString \in WeekDates : ReadWeekBounds(c, dateString)

WeekSpec == Init /\ [][WeekNext]_vars

----------------------------------------------------------------------------
(* updateApplicationStatus(applicationId, status): the supervisor accepts   *)
(* (status confirmed) or rejects (status rejected) an Application.          *)

\* the value of a property the object read does not have
Undefined == "undefined"

Decisions == {"confirmed", "rejected"}

\* await updateDoc(applicationRef, { status }); call[c].before keeps the status
\* the Application had when the call was made
updateApplicationStatus(c, applicationId, status) ==
    /\ call[c].pc = "idle"
    /\ \A d \in Calls : d < c => call[d].pc # "idle"
    /\ \E a \in applications :
          /\ a.id = applicationId
          /\ applications' = (applications \ {a}) \cup {[a EXCEPT !.status = status]}
          /\ call' = [call EXCEPT ![c] =
                        [pc |-> IF status = "confirmed" THEN "getApplication" ELSE "done",
                         laborId |-> "none", job |-> NoJob,
                         result |-> IF status = "confirmed" THEN "none" ELSE "void",
                         applicationId |-> applicationId, status |-> status,
                         before |-> a.status]]
    /\ UNCHANGED <<jobs, bookings, now, tzOffset, sweepWrites>>

\* const applicationSnap = await getDoc(applicationRef)
GetApplication(c) ==
    /\ call[c].pc = "getApplication"
    /\ \E a \in applications :
          /\ a.id = call[c].applicationId
          /\ call' = [call EXCEPT ![c] = [application |-> a] @@ [@ EXCEPT !.pc = "getJob"]]
    /\ UNCHANGED <<jobs, applications, bookings, now, tzOffset, sweepWrites>>

\* const jobSnap = await getDoc(jobRef); job = jobSnap.data(), the stored
\* fields without the document id
GetJob(c) ==
    /\ call[c].pc = "getJob"
    /\ call' = [call EXCEPT ![c].pc = "addAcceptedBooking",
                            ![c].job = jobs[call[c].application.jobId]]
    /\ UNCHANGED <<jobs, applications, bookings, now, tzOffset, sweepWrites>>

\* bookingData of updateApplicationStatus: jobId is job.id
AcceptedBookingData(id, job, application) ==
    [id |-> id,
     jobId |-> IF "id" \in DOMAIN job THEN job.id ELSE Undefined,
     laborId |-> application.laborId, supervisorId |-> job.supervisorId,
     jobTitle |-> job.title, locationName |-> job.locationName,
     jobDate |-> job.requiredDate, durationHours |-> job.durationHours,
     wageAmount |-> job.wageAmount, status |-> "confirmed"]

\* await addDoc(bookingsRef, {...bookingData}): a field that is undefined is
\* either left out of the stored Booking (ignoreUndefinedProperties) or makes
\* addDoc throw, as the Firestore instance is configured
AddAcceptedBooking(c) ==
    /\ call[c].pc = "addAcceptedBooking"
    /\ LET bookingData == AcceptedBookingData(c, call[c].job, call[c].application)
       IN  \/ /\ bookings' = bookings \cup {bookingData}
              /\ Return(c, "void")
           \/ /\ bookingData.jobId = Undefined
              /\ bookings' = bookings
              /\ Return(c, "invalid_data")
    /\ UNCHANGED <<jobs, applications, now, tzOffset, sweepWrites>>

\* the labor dashboard's requests and the supervisor's decisions, each run to
\* completion before the next starts, no write failing
ReviewNext ==
    \/ Quiescent /\ Start
    \/ Continue
    \/ /\ Quiescent
       /\ \E c \in Calls, a \in applications, status \in Decisions :
             updateApplicationStatus(c, a.id, status)
    \/ \E c \in Calls : GetApplication(c)
    \/ \E c \in Calls : GetJob(c)
    \/ \E c \in Calls : AddAcceptedBooking(c)

ReviewSpec == Init /\ [][ReviewNext]_vars

----------------------------------------------------------------------------
(* The labor dashboard's requests, each run to completion, with the clock,  *)
(* the owner controls and the sweep's writes acting between the requests:   *)
(* a posting shown on the dashboard may change before the worker applies.   *)

LifecycleSeqNext ==
    \/ Quiescent /\ Start
    \/ Quiescent /\ Lifecycle
    \/ Continue

LifecycleSeqSpec == Init /\ [][LifecycleSeqNext]_vars

----------------------------------------------------------------------------
(* The safety check of applyForJob applied to hours drawn from LedgerHours  *)
(* and ShiftHours.                                                          *)

\* values of currentHours = getLaborWeeklyHours(laborId, job.requiredDate)
LedgerHours == {0, 20, 45, 46, 50}
\* values of job.durationHours
ShiftHours == {1, 4, 5, 6, 30}

\* 2. Check weekly hours limit: what the check returns, or that it lets the
\* call go on; the message reports newTotal and the limit
SafetyCheck(currentHours, durationHours) ==
    LET newTotal == currentHours + durationHours
    IN  IF ExceedsLimit(currentHours, durationHours)
        THEN [success |-> FALSE, hours |-> newTotal, limit |-> WeeklyHourLimit]
        ELSE [success |-> TRUE]

\* a request runs the safety check on currentHours and durationHours
CheckSafetyLimit(c, currentHours, durationHours) ==
    /\ call[c].pc = "idle"
    /\ call' = [call EXCEPT ![c] =
                  [pc |-> "done", laborId |-> "none", job |-> NoJob,
                   currentHours |-> currentHours, durationHours |-> durationHours,
                   result |-> SafetyCheck(currentHours, durationHours)]]
    /\ UNCHANGED <<jobs, applications, bookings, now, tzOffset, sweepWrites>>

LimitNext ==
    \E c \in Calls, currentHours \in LedgerHours, durationHours \in ShiftHours :
        CheckSafetyLimit(c, currentHours, durationHours)

LimitSpec == Init /\ [][LimitNext]_vars

----------------------------------------------------------------------------
(* PostJobPage: the supervisor's post-job form.  call[c] is a page session: *)
(* it loads the system rates, then submits the form once.                  *)

\* getSystemRates: the stored rates document, or the fallback when there is none
getSystemRates(snap) ==
    IF snap # NoDoc THEN snap ELSE [minWagePerHour |-> FallbackMinWage]

calculateMinWageRequiredHourlyOnly(rates, wageType, durationHours) ==
    IF rates = NoDoc THEN 0 ELSE rates.minWagePerHour

calculateMinWageRequired(rates, wageType, durationHours) ==
    IF rates = NoDoc THEN 0
    ELSE IF wageType = "hourly" THEN rates.minWagePerHour
    ELSE rates.minWagePerHour * durationHours

\* the wage check of handleSubmit accepting an offer one rupee short
WageTooLowByTwo(wageAmount, minRequired) == wageAmount + 1 < minRequired

WageTooLow(wageAmount, minRequired) == wageAmount < minRequired

\* the form fields handleSubmit passes to createJobPosting for posting j
FormData(j, form) ==
    [supervisorId |-> IF j = "j1" THEN "s1" ELSE "s2",
     title |-> IF j = "j1" THEN "Construction Worker" ELSE "House Painting Work",
     locationName |-> IF j = "j1" THEN "Yelahanka" ELSE "Nagasandra",
     description |-> "Call when you reach",
     wageType |-> form.wageType,
     wageAmount |-> form.wageAmount.value,
     requiredDate |-> form.requiredDate,
     durationHours |-> form.durationHours]

\* the forms a supervisor can submit
Forms ==
    [wageType : WageTypes, wageAmount : WageInputs,
     requiredDate : {FirstDate}, durationHours : FormDurations]

PostInit ==
    /\ tzOffset \in TimeZoneOffsets
    /\ now = 0
    /\ jobs = [j \in JobIds |-> NoDoc]
    /\ applications = {}
    /\ bookings = {}
    /\ sweepWrites = {}
    /\ call = [c \in Calls |-> [pc |-> "loading"]]

\* useEffect: getSystemRates().then(setRates)
LoadRates(c, snap) ==
    /\ call[c].pc = "loading"
    /\ call' = [call EXCEPT ![c] = [pc |-> "form", rates |-> getSystemRates(snap)]]
    /\ UNCHANGED <<jobs, applications, bookings, now, tzOffset, sweepWrites>>

\* handleSubmit with the fields of the form; addDoc stores the posting under
\* the next unused id
handleSubmit(c, form) ==
    /\ call[c].pc = "form"
    /\ \E j \in JobIds :
          /\ jobs[j] = NoDoc
          /\ \A k \in JobIds : jobs[k] = NoDoc => k = j \/ j = "j1"
          /\ LET minRequired == calculateMinWageRequired(call[c].rates, form.wageType,
                                                         form.durationHours)
                 done(error) == [call EXCEPT ![c] = [pc |-> "submitted",
                                                     rates |-> call[c].rates,
                                                     form |-> form,
                                                     minRequired |-> minRequired,
                                                     error |-> error]]
             IN  IF form.wageAmount.typeof # "number"
                 THEN call' = done("invalid_wage") /\ jobs' = jobs
                 ELSE IF WageTooLow(form.wageAmount.value, minRequired)
                 THEN call' = done("wage_too_low") /\ jobs' = jobs
                 ELSE /\ call' = done("")
                      /\ jobs' = [jobs EXCEPT ![j] = createJobPosting(FormData(j, form), now)]
    /\ UNCHANGED <<applications, bookings, now, tzOffset, sweepWrites>>

PostNext ==
    \/ \E c \in Calls, snap \in RateDocs : LoadRates(c, snap)
    \/ \E c \in Calls, form \in Forms : handleSubmit(c, form)

PostSpec == PostInit /\ [][PostNext]_vars

----------------------------------------------------------------------------
(* Properties *)

\* hours of worker l's confirmed Bookings whose jobDate is a day of week k
\* (days 7k to 7k + 6, Monday to Sunday)
WeekHours(l, k) ==
    SumHours({ b \in bookings : /\ b.laborId = l
                                /\ b.status = "confirmed"
                                /\ b.jobDate \div 7 = k })

\* the local-time week the instant new Date(d) falls in
WindowOf(d) == LocalDay(ParseDate(d)) \div 7

Succeeded(c) == call[c].pc = "done" /\ call[c].result = "success"

\* C1: weekly cap. When every request runs to completion before the next
\* starts and no write fails, for every worker and every Monday-to-Sunday week
\* the confirmed Bookings whose jobDate lies in the week total at most 50
\* hours.
C1_WeeklyCap ==
    \A l \in Labors, k \in 0..MaxWeek : WeekHours(l, k) <= 50

\* C2: two calls of one worker for two different postings dated in the same
\* week, each at most 50 hours alone and more than 50 together, never both
\* succeed, in any interleaving.
C2_NoConcurrentOverbooking ==
    \A c \in Calls, d \in Calls :
        ( /\ c # d
          /\ Succeeded(c) /\ Succeeded(d)
          /\ call[c].laborId = call[d].laborId
          /\ call[c].job.id # call[d].job.id
          /\ WindowOf(call[c].job.requiredDate) = WindowOf(call[d].job.requiredDate)
          /\ call[c].job.durationHours <= 50
          /\ call[d].job.durationHours <= 50 )
        => call[c].job.durationHours + call[d].job.durationHours <= 50

\* C3: per-posting capacity. For a posting with laborersRequired = N, at most
\* N distinct workers ever hold a confirmed Application, and at most N a
\* confirmed Booking, in any interleaving of the calls.
C3_Capacity ==
    \A j \in JobIds :
        /\ Cardinality({ a.laborId : a \in { x \in applications :
               x.jobId = j /\ x.status = "confirmed" } }) <= jobs[j].laborersRequired
        /\ Cardinality({ b.laborId : b \in { x \in bookings :
               x.jobId = j /\ x.status = "confirmed" } }) <= jobs[j].laborersRequired

\* C4: in every reachable state every posting's stored laborersApplied lies
\* between 0 and its laborersRequired.
C4_CounterInRange ==
    \A j \in JobIds :
        /\ 0 <= jobs[j].laborersApplied
        /\ jobs[j].laborersApplied <= jobs[j].laborersRequired

\* C5: no reachable state has a posting whose laborersApplied equals its
\* laborersRequired while its status is open: the call that makes them equal
\* leaves the posting filled and unlisted.
C5_FilledWhenFull ==
    \A j \in JobIds :
        jobs[j].laborersApplied = jobs[j].laborersRequired
            => jobs[j].status # "open"

\* C6: for every (posting, worker) pair at most one JobApplication exists and
\* at most one call returns success, in any interleaving.
C6_NoDuplicateApplication ==
    \A j \in JobIds, l \in Labors :
        /\ Cardinality({ a \in applications : a.jobId = j /\ a.laborId = l }) <= 1
        /\ Cardinality({ c \in Calls : /\ Succeeded(c)
                                       /\ call[c].job.id = j
                                       /\ call[c].laborId = l }) <= 1

\* C7: all or nothing. A call that has returned a failure has left none of
\* its writes in the store: no Application and no Booking it created.
C7_AllOrNothing ==
    \A c \in Calls :
        (call[c].pc = "done" /\ call[c].result # "success")
            => /\ \A a \in applications : a.id # c
               /\ \A b \in bookings : b.id # c

\* the worker's confirmed hours in the week of the job of call c, plus the
\* job's hours, exceed 50
OverCap(c) ==
    getLaborWeeklyHours(call[c].laborId, call[c].job.requiredDate)
        + call[c].job.durationHours > 50

C9_CapacityRefusal ==
    [][ \A c \in Calls :
          ( /\ call[c].pc = "getLaborWeeklyHours"
            /\ ~OverCap(c)
            /\ IsFull(jobs[call[c].job.id])
            /\ call'[c] # call[c] )
          => /\ call'[c].pc = "done"
             /\ call'[c].result = "capacity_exceeded"
             /\ UNCHANGED store ]_vars

\* C10: a posting's stored laborersApplied never decreases in any step.
C10_CounterMonotonic ==
    [][ \A j \in JobIds :
          jobs'[j].laborersApplied >= jobs[j].laborersApplied ]_vars

\* the documents a call has created (addDoc gave them the call's number as id)
ApplicationsOf(c) == { a \in applications : a.id = c }
BookingsOf(c) == { b \in bookings : b.id = c }

\* C11: effect of a successful applyForJob(job, laborId). Each of its writes
\* adds one document and changes nothing else; when it returns success it has
\* added exactly one JobApplication (jobId, laborId, the job's supervisorId,
\* status confirmed) and exactly one confirmed Booking whose jobTitle,
\* locationName, jobDate, durationHours and wageAmount are the job's title,
\* locationName, requiredDate, durationHours and wageAmount; its last write
\* increases the posting's laborersApplied by exactly 1 and changes nothing
\* else, except status (to filled) and isListed (to false) when the counter
\* reaches laborersRequired.
C11_SuccessEffect ==
    [][ \A c \in Calls :
          LET job == call[c].job
              laborId == call[c].laborId
          IN  /\ (call[c].pc = "addApplication" /\ call'[c].pc = "addBooking")
                 => /\ Cardinality(applications' \ applications) = 1
                    /\ applications \subseteq applications'
                    /\ UNCHANGED <<jobs, bookings>>
              /\ (call[c].pc = "addBooking" /\ call'[c].pc = "updateJob")
                 => /\ Cardinality(bookings' \ bookings) = 1
                    /\ bookings \subseteq bookings'
                    /\ UNCHANGED <<jobs, applications>>
              /\ (call[c].pc = "updateJob" /\ call'[c].pc = "done"
                    /\ call'[c].result = "success")
                 => /\ UNCHANGED <<applications, bookings>>
                    /\ Cardinality(ApplicationsOf(c)) = 1
                    /\ \A a \in ApplicationsOf(c) :
                          /\ a.jobId = job.id
                          /\ a.laborId = laborId
                          /\ a.supervisorId = job.supervisorId
                          /\ a.status = "confirmed"
                    /\ Cardinality(BookingsOf(c)) = 1
                    /\ \A b \in BookingsOf(c) :
                          /\ b.jobId = job.id
                          /\ b.laborId = laborId
                          /\ b.status = "confirmed"
                          /\ b.jobTitle = job.title
                          /\ b.locationName = job.locationName
                          /\ b.jobDate = job.requiredDate
                          /\ b.durationHours = job.durationHours
                          /\ b.wageAmount = job.wageAmount
                    /\ jobs'[job.id].laborersApplied = jobs[job.id].laborersApplied + 1
                    /\ \A j \in JobIds \ {job.id} : jobs'[j] = jobs[j]
                    /\ \/ jobs'[job.id] = [jobs[job.id] EXCEPT !.laborersApplied = @ + 1]
                       \/ /\ jobs'[job.id].laborersApplied >= jobs[job.id].laborersRequired
                          /\ jobs'[job.id] = [jobs[job.id] EXCEPT !.laborersApplied = @ + 1,
                                                !.status = "filled", !.isListed = FALSE] ]_vars

\* C11 witness: a call has returned success, its Application and its Booking
\* are stored, and its posting was filled by it.
C11_Witness ==
    \E c \in Calls :
        /\ Succeeded(c)
        /\ ApplicationsOf(c) # {} /\ BookingsOf(c) # {}
        /\ jobs[call[c].job.id].status = "filled"
        /\ jobs[call[c].job.id].laborersApplied = call[c].job.laborersApplied + 1

\* the calls made for posting j by worker l
CallsFor(j, l) ==
    { c \in Calls : call[c].job.id = j /\ call[c].laborId = l /\ call[c].pc # "dashboard" }

SystemError(c) == call[c].pc = "done" /\ call[c].result = "system_error"

\* C12: retry after a system error. When each call is made after the previous
\* one has returned, for a (posting, worker) pair that has had a call fail
\* with the system error, over that call and its retries at most one
\* Application and at most one Booking exist for the pair, at most one of the
\* calls has incremented laborersApplied (returned success), and the counter
\* counts exactly the calls that incremented it.
C12_RetrySafe ==
    \A j \in JobIds, l \in Labors :
        (\E c \in CallsFor(j, l) : SystemError(c))
        => /\ Cardinality({ a \in applications : a.jobId = j /\ a.laborId = l }) <= 1
           /\ Cardinality({ b \in bookings : b.jobId = j /\ b.laborId = l }) <= 1
           /\ Cardinality({ c \in CallsFor(j, l) : Succeeded(c) }) <= 1
           /\ jobs[j].laborersApplied
                = Cardinality({ c \in Calls : Succeeded(c) /\ call[c].job.id = j })

\* C12 witness: a call failed with the system error after writing its
\* Application, and the retry for the same pair has returned.
C12_Witness ==
    \E j \in JobIds, l \in Labors :
        \E c \in CallsFor(j, l), d \in CallsFor(j, l) :
            /\ c < d
            /\ SystemError(c) /\ ApplicationsOf(c) # {}
            /\ call[d].pc = "done"

\* C13: the postings openJobs returns are exactly those with status open,
\* isListed true and now <= expiresAt at the time of the call; a posting whose
\* expiresAt equals now is included.
C13_OpenJobsPredicate ==
    \A c \in Calls :
        call[c].pc = "getOpenJobs"
        => getOpenJobs = { j \in JobIds : /\ jobs[j].status = "open"
                                          /\ jobs[j].isListed = TRUE
                                          /\ now <= jobs[j].expiresAt }

\* the open postings whose expiresAt is earlier than the current time
Overdue == { j \in JobIds : jobs[j].status = "open" /\ jobs[j].expiresAt < now }

\* C14: the expiration sweep. The sweep issues a write for exactly the open
\* postings whose expiresAt is earlier than now; each of its writes reaches a
\* posting that is still open (an already-expired posting is never rewritten)
\* and changes its status to expired and nothing else; every other posting is
\* left unchanged.
C14_SweepExact ==
    [][ /\ (sweepWrites' # sweepWrites /\ sweepWrites \subseteq sweepWrites')
           => /\ \A w \in sweepWrites' \ sweepWrites : w.id \in Overdue
              /\ \A j \in Overdue : \E w \in sweepWrites' : w.id = j
              /\ jobs' = jobs
        /\ (sweepWrites' # sweepWrites /\ sweepWrites' \subseteq sweepWrites)
           => \A w \in sweepWrites \ sweepWrites' :
                 /\ jobs[w.id].status = "open"
                 /\ jobs' = [jobs EXCEPT ![w.id].status = "expired"] ]_vars

\* C15: the sweep is complete when openJobs returns. When a session's
\* getOpenJobs returns and no other session has run the sweep, every posting
\* the sweep found open with expiresAt earlier than now has stored status
\* expired: none of the sweep's writes is still pending.
C15_SweepCompleteAtReturn ==
    [][ \A c \in Calls :
          ( /\ call[c].pc = "getOpenJobs"
            /\ call'[c].pc = "dashboard"
            /\ \A d \in Calls \ {c} : call[d].pc = "idle" )
          => \A w \in sweepWrites' : jobs'[w.id].status = "expired" ]_vars

Terminal == {"filled", "expired", "delisted"}

\* C16: filled, expired and delisted are terminal for the feed. A posting
\* whose stored status is filled, expired or delisted is not among the
\* postings getOpenJobs returns, and no step (listing toggle, delisting,
\* sweep write, applyForJob write) takes its status out of these three, so no
\* later getOpenJobs returns it either.
C16_TerminalForFeed ==
    [][ \A j \in JobIds :
          jobs[j].status \in Terminal
          => /\ j \notin getOpenJobs
             /\ jobs'[j].status \in Terminal
             /\ j \notin getOpenJobs' ]_vars

\* C16 witness: a filled posting has been listed again by its owner before
\* its expiresAt, and a getOpenJobs call is about to run its query.
C16_Witness ==
    \E j \in JobIds, c \in Calls :
        /\ jobs[j].status = "filled"
        /\ jobs[j].isListed = TRUE
        /\ jobs[j].expiresAt > now
        /\ call[c].pc = "getOpenJobs"

\* C17: a posting's status changes only from open, to filled, expired or
\* delisted: no step changes the status of a posting that is already filled,
\* expired or delisted, and none sets a status to open.
C17_StatusTransitions ==
    [][ \A j \in JobIds :
          jobs'[j].status # jobs[j].status
          => /\ jobs[j].status = "open"
             /\ jobs'[j].status \in Terminal ]_vars

\* C18: the lifecycle operations leave Bookings and Applications alone. A
\* step of toggleJobListing, deleteJobPosting or the sweep (its read and each
\* of its writes; these are the steps that leave the sessions where they are,
\* or change the pending sweep writes) changes no Booking and no
\* JobApplication, and every Booking and Application stored before a step
\* that changes a posting's status or isListed is stored unchanged after it.
C18_LifecycleFrame ==
    [][ /\ (call' = call \/ sweepWrites' # sweepWrites)
           => UNCHANGED <<applications, bookings>>
        /\ (\E j \in JobIds : \/ jobs'[j].status # jobs[j].status
                              \/ jobs'[j].isListed # jobs[j].isListed)
           => /\ bookings \subseteq bookings'
              /\ applications \subseteq applications' ]_vars

\* C18 witness: a confirmed Booking of a posting that has since been delisted
\* and unlisted by its owner.
C18_Witness ==
    \E b \in bookings :
        /\ b.status = "confirmed"
        /\ jobs[b.jobId].status = "delisted"
        /\ jobs[b.jobId].isListed = FALSE
        /\ jobs[b.jobId].laborersApplied < jobs[b.jobId].laborersRequired

\* the weekday of a date string: Monday = 1 .. Saturday = 6, Sunday = 7
Weekday(dateString) == (dateString % 7) + 1

\* the days to go back from a date to the Monday of its week
OffsetToMonday(dateString) ==
    IF Weekday(dateString) = 7 THEN 6 ELSE Weekday(dateString) - 1

\* C19: getWeekBounds(date) starts at 00:00:00.000 (local) of the Monday 6
\* days before date when date is a Sunday and d-1 days before it when its
\* weekday is d, and ends at 23:59:59.999 of the Sunday 6 days after that
\* Monday; the window contains the day of date and spans exactly 7 calendar
\* days; "2025-12-29" (a Monday) gives 29 December to 4 January 2026.
C19_WeekBounds ==
    \A c \in Calls :
        call[c].pc = "done"
        => LET r == call[c].result
               monday == r.date - OffsetToMonday(r.date)
           IN  /\ r.start = LocalMidnight(monday)
               /\ r.end = LocalMidnight(monday + 6) + MsPerDay - 1
               /\ r.start <= LocalMidnight(r.date)
               /\ LocalMidnight(r.date) + MsPerDay - 1 <= r.end
               /\ r.end - r.start + 1 = 7 * MsPerDay
               /\ r.date = 14 => /\ r.start = LocalMidnight(14)
                                 /\ r.end = LocalMidnight(20) + MsPerDay - 1

\* C20: getLaborWeeklyHours(laborId, targetDate), as applyForJob reads it, is
\* the sum of durationHours over exactly the Bookings of laborId with status
\* confirmed whose jobDate is one of the days from the Monday to the Sunday of
\* getWeekBounds(targetDate), both included; the read changes no stored
\* record.
C20_WeeklyHours ==
    [][ \A c \in Calls :
          (call[c].pc = "getLaborWeeklyHours" /\ call'[c] # call[c])
          => LET laborId == call[c].laborId
                 targetDate == call[c].job.requiredDate
                 w == getWeekBounds(targetDate)
                 monday == LocalDay(w.start)
                 sunday == LocalDay(w.end)
             IN  /\ getLaborWeeklyHours(laborId, targetDate)
                      = SumHours({ b \in bookings : /\ b.laborId = laborId
                                                    /\ b.status = "confirmed"
                                                    /\ monday <= b.jobDate
                                                    /\ b.jobDate <= sunday })
                 /\ UNCHANGED store ]_vars

Submitted(c) == call[c].pc = "submitted"

\* C21: the minimum wage handleSubmit computes is rates.minWagePerHour for an
\* hourly offer and rates.minWagePerHour * durationHours for a daily one, and
\* a numeric offer is accepted exactly when it is >= that minimum: rate 60,
\* daily, 8 hours gives 480, hourly gives 60; 480 against 480 is accepted,
\* 479 is not.
C21_MinimumRequired ==
    \A c \in Calls :
        Submitted(c)
        => LET form == call[c].form
               rate == call[c].rates.minWagePerHour
               minimum == call[c].minRequired
           IN  /\ form.wageType = "hourly" => minimum = rate
               /\ form.wageType = "daily" => minimum = rate * form.durationHours
               /\ form.wageAmount.typeof = "number"
                  => /\ call[c].error = "" <=> form.wageAmount.value >= minimum
                     /\ call[c].error # "" => call[c].error = "wage_too_low"
                     /\ (minimum = 480 /\ form.wageAmount.value = 480) => call[c].error = ""
                     /\ (minimum = 480 /\ form.wageAmount.value = 479)
                        => call[c].error = "wage_too_low"
               /\ (rate = 60 /\ form.wageType = "daily" /\ form.durationHours = 8)
                  => minimum = 480
               /\ (rate = 60 /\ form.wageType = "hourly") => minimum = 60

\* C21 witness: with rate 60 a daily offer of 479 for 8 hours has been
\* refused and one of 480 accepted.
C21_Witness ==
    \E c \in Calls, d \in Calls :
        /\ Submitted(c) /\ Submitted(d)
        /\ call[c].minRequired = 480 /\ call[d].minRequired = 480
        /\ call[c].form.wageAmount = [typeof |-> "number", value |-> 479]
        /\ call[c].error = "wage_too_low"
        /\ call[d].form.wageAmount = [typeof |-> "number", value |-> 480]
        /\ call[d].error = ""

\* C22: wage floor. A submit of the post-job form whose wageAmount is below
\* the minimum computed from the page's system rates for the form's wageType
\* and durationHours stores no posting, and every posting a submit stores has
\* wageAmount >= the minimum for its own wageType and durationHours.
C22_WageFloor ==
    [][ \A c \in Calls :
          (call[c].pc = "form" /\ call'[c].pc = "submitted")
          => LET form == call'[c].form
                 rate == call[c].rates.minWagePerHour
                 Minimum(wageType, durationHours) ==
                     IF wageType = "hourly" THEN rate ELSE rate * durationHours
             IN  /\ ( /\ form.wageAmount.typeof = "number"
                      /\ form.wageAmount.value < Minimum(form.wageType, form.durationHours) )
                    => jobs' = jobs
                 /\ \A j \in JobIds :
                       jobs'[j] # jobs[j]
                       => /\ jobs[j] = NoDoc
                          /\ jobs'[j].wageAmount
                               >= Minimum(jobs'[j].wageType, jobs'[j].durationHours) ]_vars

\* C22 witness: one submit below the minimum was refused and stored nothing,
\* another stored a posting offering exactly the minimum.
C22_Witness ==
    \E c \in Calls, j \in JobIds :
        /\ Submitted(c) /\ call[c].error = "wage_too_low"
        /\ jobs[j] # NoDoc
        /\ jobs[j].wageType = "daily"
        /\ jobs[j].wageAmount = 600
        /\ \A k \in JobIds \ {j} : jobs[k] = NoDoc

\* C23: the legacy bookJob entry point makes no duplicate-application check:
\* a bookJob call always goes on to the safety check, whether or not a
\* JobApplication for its (posting, laborId) pair exists, and so never
\* returns the already-applied failure.
C23_BookJobSkipsDuplicateCheck ==
    [][ \A c \in Calls :
          (call[c].pc = "dashboard" /\ call[c].job # NoJob /\ call'[c].pc # "dashboard")
          => /\ call'[c].pc = "getLaborWeeklyHours"
             /\ call'[c].result # "already_applied" ]_vars

C25_AcceptedBookingFields ==
    [][ \A c \in Calls :
          call[c].pc = "addAcceptedBooking"
          => LET application == call[c].application
                 stored == jobs[application.jobId]
             IN  \A b \in bookings' \ bookings :
                    /\ b.jobId = application.jobId
                    /\ b.laborId = application.laborId
                    /\ b.jobTitle = stored.title
                    /\ b.locationName = stored.locationName
                    /\ b.jobDate = stored.requiredDate
                    /\ b.durationHours = stored.durationHours
                    /\ b.wageAmount = stored.wageAmount ]_vars

\* C26: pairing. Whenever no operation is in progress, a confirmed Booking
\* for a (jobId, laborId) pair exists exactly when a confirmed JobApplication
\* for the pair exists; in particular no confirmed Booking remains once the
\* pair's Application has been rejected.
C26_Pairing ==
    Quiescent
    => \A j \in JobIds, l \in Labors :
          (\E b \in bookings : b.jobId = j /\ b.laborId = l /\ b.status = "confirmed")
          <=> (\E a \in applications :
                  a.jobId = j /\ a.laborId = l /\ a.status = "confirmed")

\* C27: the sweep writes nothing but status. When a write of the sweep
\* reaches a posting, the posting keeps the laborersApplied and isListed it
\* had just before the write, and a posting delisted since the sweep read it
\* stays delisted.
C27_SweepWritesStatusOnly ==
    [][ \A w \in sweepWrites \ sweepWrites' :
          /\ jobs'[w.id].laborersApplied = jobs[w.id].laborersApplied
          /\ jobs'[w.id].isListed = jobs[w.id].isListed
          /\ jobs[w.id].status = "delisted" => jobs'[w.id].status = "delisted" ]_vars

\* the posting can still be applied for
Available(job) == job.status = "open" /\ job.isListed

\* C28: applyForJob succeeds only for a still-available posting. A call made
\* with a posting object read earlier, while the stored posting is expired,
\* delisted, filled or unlisted, creates no Application and no Booking and
\* does not change the posting.
C28_OnlyAvailablePostings ==
    [][ \A c \in Calls :
          ( /\ call[c].pc \in {"addApplication", "addBooking", "updateJob"}
            /\ ~Available(jobs[call[c].job.id]) )
          => UNCHANGED store ]_vars

\* C29: every posting stored by the post-job form has status open, isListed
\* true, laborersApplied 0, expiresAt 7 days after its creation and a defined
\* laborersRequired >= 1.
C29_StoredPostingComplete ==
    \A j \in JobIds :
        jobs[j] # NoDoc
        => /\ jobs[j].status = "open"
           /\ jobs[j].isListed = TRUE
           /\ jobs[j].laborersApplied = 0
           /\ jobs[j].expiresAt = now + ExpirationDays * MsPerDay
           /\ "laborersRequired" \in DOMAIN jobs[j]
           /\ jobs[j].laborersRequired >= 1

====
